---- MODULE Spec2Model ----
(***************************************************************************)
(* Affine map / operand normalization and composition (AffineOps.cpp):     *)
(* AffineApplyNormalizer, composeAffineMapAndOperands,                     *)
(* fullyComposeAffineMapAndOperands, canonicalizeMapAndOperands and the    *)
(* SimplifyAffineOp rewrite pattern, over a small IR of index values.      *)
(*                                                                         *)
(* Positions of dimensions and symbols are 0-based as in the code;         *)
(* sequences are 1-based, so position p is element p + 1.                  *)
(***************************************************************************)
EXTENDS Integers, Sequences, FiniteSets, TLC

VARIABLES
  ops,          \* the affine.apply operations of the IR: result value -> [map, operands]
  map,          \* the AffineMap of the computation being simplified
  operands,     \* its operand list (dimension operands first, then symbols)
  oldMap,       \* the pair the computation had before the entry point ran
  oldOperands,
  pc,           \* which entry point ran last
  matched,      \* what SimplifyAffineOp::matchAndRewrite reported
  iters,        \* iterations of the loop of fullyComposeAffineMapAndOperands
  steps,        \* entry points applied so far
  dimOps,       \* the DimOp operations of the IR: result value -> its memref
  value,        \* the value the operand classifier is asked about
  op,           \* the kind of operation a verifier or builder is asked about
  result,       \* what the classifier, verifier or builder answered
  args,         \* the arguments of the AffineMap method under call
  ret           \* what the AffineMap method returned

vars == <<ops, map, operands, oldMap, oldOperands, pc, matched, iters, steps,
          dimOps, value, op, result, args, ret>>

\* What the entry points that simplify a computation leave alone.
queryVars == <<dimOps, value, op, result, args, ret>>

----------------------------------------------------------------------------
(* Bounds of the model.                                                    *)

\* Number of integer assignments the function of a map is evaluated on.
NumEnvs == 2

\* Longest sequence of entry points applied to one computation.
MaxSteps == 2

\* Longest operand list a verifier or builder is handed.
MaxQueryOperands == 3

\* Largest absolute value a dimension or a symbol is given when two maps
\* are compared as functions.
MaxAbs == 1

\* Largest divisor and largest absolute value of the dividend constantFold
\* is applied to.
MaxDivisor == 4
MaxDividend == 9

----------------------------------------------------------------------------
(* AffineExpr: DimRef, SymbolRef, Constant and binary operations.          *)

Dim(p) == <<"dim", p>>
Sym(p) == <<"sym", p>>
Cst(c) == <<"cst", c>>
Bin(k, l, r) == <<k, l, r>>
\* A default-constructed (null) AffineExpr, as left in the unused entries of
\* a SmallVector<AffineExpr>.
NullExpr == <<"null">>

IsBin(e) == Len(e) = 3

Seq2Set(s) == {s[i] : i \in 1..Len(s)}

RECURSIVE DimsOf(_)
\* The dimension positions an expression references (walkExprs).
DimsOf(e) ==
  IF IsBin(e) THEN DimsOf(e[2]) \cup DimsOf(e[3])
  ELSE IF e[1] = "dim" THEN {e[2]} ELSE {}

RECURSIVE SymsOf(_)
\* The symbol positions an expression references (walkExprs).
SymsOf(e) ==
  IF IsBin(e) THEN SymsOf(e[2]) \cup SymsOf(e[3])
  ELSE IF e[1] = "sym" THEN {e[2]} ELSE {}

RECURSIVE HasNull(_)
HasNull(e) ==
  IF IsBin(e) THEN HasNull(e[2]) \/ HasNull(e[3]) ELSE e = NullExpr

\* Mathematical floor division and modulo (b > 0).
\* Mutant of FloorDiv: the quotient is truncated toward zero.
FloorDivTruncating(a, b) == IF a >= 0 THEN a \div b ELSE -((-a) \div b)

FloorDiv(a, b) == a \div b
Mod(a, b) == a % b
CeilDiv(a, b) == -((-a) \div b)

RECURSIVE EvalExpr(_, _, _)
\* The integer an expression denotes on dimension values dv and symbol
\* values sv.
EvalExpr(e, dv, sv) ==
  IF IsBin(e) THEN
    LET l == EvalExpr(e[2], dv, sv)
        r == EvalExpr(e[3], dv, sv)
    IN CASE e[1] = "add" -> l + r
         [] e[1] = "mul" -> l * r
         [] e[1] = "floordiv" -> FloorDiv(l, r)
         [] e[1] = "ceildiv" -> CeilDiv(l, r)
         [] e[1] = "mod" -> Mod(l, r)
  ELSE CASE e[1] = "dim" -> dv[e[2] + 1]
         [] e[1] = "sym" -> sv[e[2] + 1]
         [] e[1] = "cst" -> e[2]

----------------------------------------------------------------------------
(* AffineMap: (dimCount, symbolCount, results).                            *)

AffineMapGet(dimCount, symbolCount, results) ==
  [numDims |-> dimCount, numSymbols |-> symbolCount, results |-> results]

getNumInputs(m) == m.numDims + m.numSymbols

\* Every DimRef is < dimCount and every SymbolRef is < symbolCount.
WellFormed(m) ==
  \A i \in 1..Len(m.results) :
    /\ ~HasNull(m.results[i])
    /\ \A p \in DimsOf(m.results[i]) : p < m.numDims
    /\ \A p \in SymsOf(m.results[i]) : p < m.numSymbols

RECURSIVE replaceExpr(_, _, _)
\* AffineExpr::replaceDimsAndSymbols: bottom-up substitution; a position
\* past the end of the replacement list is left unchanged.
replaceExpr(e, dimReplacements, symReplacements) ==
  IF IsBin(e) THEN
    Bin(e[1], replaceExpr(e[2], dimReplacements, symReplacements),
              replaceExpr(e[3], dimReplacements, symReplacements))
  ELSE IF e[1] = "dim" THEN
    IF e[2] >= Len(dimReplacements) THEN e ELSE dimReplacements[e[2] + 1]
  ELSE IF e[1] = "sym" THEN
    IF e[2] >= Len(symReplacements) THEN e ELSE symReplacements[e[2] + 1]
  ELSE e

replaceDimsAndSymbols(m, dimReplacements, symReplacements, numResultDims, numResultSyms) ==
  AffineMapGet(numResultDims, numResultSyms,
    [i \in 1..Len(m.results) |->
       replaceExpr(m.results[i], dimReplacements, symReplacements)])

\* Mutant of compose: the symbols of the producer come first.
composeProducerSymbolsFirst(this, producer) ==
  AffineMapGet(producer.numDims, this.numSymbols + producer.numSymbols,
    [i \in 1..Len(this.results) |->
       replaceExpr(this.results[i], producer.results,
         [j \in 1..this.numSymbols |-> Sym(producer.numSymbols + j - 1)])])

\* Mutant of compose: the symbols of the producer are shifted by the
\* producer's own number of symbols.
composeShiftByProducer(this, producer) ==
  AffineMapGet(producer.numDims, this.numSymbols + producer.numSymbols,
    [i \in 1..Len(this.results) |->
       replaceExpr(this.results[i],
         [r \in 1..Len(producer.results) |->
            replaceExpr(producer.results[r], <<>>,
              [j \in 1..producer.numSymbols |-> Sym(producer.numSymbols + j - 1)])],
         <<>>)])

\* this.compose(producer): the producer's results replace the dimensions of
\* `this`; the symbols of `this` come first and the producer's symbol j
\* becomes symbol this.numSymbols + j.
compose(this, producer) ==
  LET newDims == [i \in 1..producer.numDims |-> Dim(i - 1)]
      newSymbols == [j \in 1..producer.numSymbols |-> Sym(this.numSymbols + j - 1)]
      newMap == replaceDimsAndSymbols(producer, newDims, newSymbols,
                  producer.numDims, this.numSymbols + producer.numSymbols)
  IN AffineMapGet(producer.numDims, this.numSymbols + producer.numSymbols,
       [i \in 1..Len(this.results) |->
          replaceExpr(this.results[i], newMap.results, <<>>)])

\* An operand attribute of constantFold: an integer constant, or null for
\* an operand that is no constant.
IntegerAttr(c) == [isInt |-> TRUE, value |-> c]
NullAttr == [isInt |-> FALSE, value |-> 0]

\* AffineMap::constantFold: every result is folded on the operand constants
\* (dimensions first), and the fold fails when a result reads an operand
\* that is no constant.
constantFold(m, operandConstants) ==
  IF \E i \in 1..Len(m.results) :
       \/ \E p \in DimsOf(m.results[i]) : ~operandConstants[p + 1].isInt
       \/ \E p \in SymsOf(m.results[i]) : ~operandConstants[m.numDims + p + 1].isInt
  THEN [ok |-> FALSE, results |-> <<>>]
  ELSE [ok |-> TRUE,
        results |->
          [i \in 1..Len(m.results) |->
             EvalExpr(m.results[i],
               [d \in 1..m.numDims |-> operandConstants[d].value],
               [j \in 1..m.numSymbols |-> operandConstants[m.numDims + j].value])]]

----------------------------------------------------------------------------
(* simplifyAffineMap: flatten each affine-linear result into coefficients  *)
(* of d0.., s0.. and a constant term, and rebuild it in that order.        *)

ZeroRow(n) == [i \in 1..n |-> 0]
UnitRow(n, k) == [i \in 1..n |-> IF i = k THEN 1 ELSE 0]
IsConstRow(row) == \A i \in 1..(Len(row) - 1) : row[i] = 0

RECURSIVE IsLinear(_)
\* Sums and products by a constant only (the expressions the flattener
\* turns into one row of coefficients).
IsLinear(e) ==
  IF IsBin(e) THEN
    /\ IsLinear(e[2]) /\ IsLinear(e[3])
    /\ \/ e[1] = "add"
       \/ e[1] = "mul" /\ (DimsOf(e[2]) \cup SymsOf(e[2]) = {}
                           \/ DimsOf(e[3]) \cup SymsOf(e[3]) = {})
  ELSE e # NullExpr

RECURSIVE Flatten(_, _, _)
\* Row of coefficients <<d0, .., s0, .., constant>> of a linear expression.
Flatten(e, nd, ns) ==
  LET n == nd + ns + 1 IN
  IF IsBin(e) THEN
    LET l == Flatten(e[2], nd, ns)
        r == Flatten(e[3], nd, ns)
    IN IF e[1] = "add" THEN [i \in 1..n |-> l[i] + r[i]]
       ELSE IF IsConstRow(r) THEN [i \in 1..n |-> l[i] * r[n]]
       ELSE [i \in 1..n |-> r[i] * l[n]]
  ELSE CASE e[1] = "dim" -> UnitRow(n, e[2] + 1)
         [] e[1] = "sym" -> UnitRow(n, nd + e[2] + 1)
         [] e[1] = "cst" -> [i \in 1..n |-> IF i = n THEN e[2] ELSE 0]

Term(k, c, nd) ==
  LET v == IF k <= nd THEN Dim(k - 1) ELSE Sym(k - nd - 1)
  IN IF c = 1 THEN v ELSE Bin("mul", v, Cst(c))

RECURSIVE Rebuild(_, _, _, _)
\* Sum of the non-zero terms of a row from column k on, added to acc.
Rebuild(row, k, nd, acc) ==
  IF k > Len(row) THEN (IF acc = NullExpr THEN Cst(0) ELSE acc)
  ELSE IF row[k] = 0 THEN Rebuild(row, k + 1, nd, acc)
  ELSE LET t == IF k = Len(row) THEN Cst(row[k]) ELSE Term(k, row[k], nd)
       IN Rebuild(row, k + 1, nd, IF acc = NullExpr THEN t ELSE Bin("add", acc, t))

simplifyAffineExpr(e, nd, ns) ==
  IF IsLinear(e) THEN Rebuild(Flatten(e, nd, ns), 1, nd, NullExpr) ELSE e

simplifyAffineMap(m) ==
  IF WellFormed(m)
  THEN AffineMapGet(m.numDims, m.numSymbols,
         [i \in 1..Len(m.results) |->
            simplifyAffineExpr(m.results[i], m.numDims, m.numSymbols)])
  ELSE m

----------------------------------------------------------------------------
(* The IR: index values and their provenance.                              *)

\* Values defined at the top level of a function (arguments or results of
\* top-level operations).
TopLevelValues == {"t1", "t2"}
\* Induction variables of affine.for loops.
InductionVars == {"i1"}
\* Results of ConstantOp, nested in a loop body.
ConstantValues == {"c7"}
\* Results of affine.apply operations nested in a loop body, in the order
\* they are defined.
ApplyValues == {"p1", "p2"}

BaseValues == TopLevelValues \cup InductionVars \cup ConstantValues
Values == BaseValues \cup ApplyValues

\* Of the top-level values, the function arguments; the others are results
\* of operations at the top level of the function.
FunctionArguments == {"t1"}
TopLevelOpValues == TopLevelValues \ FunctionArguments

\* Values only the operand classifier and the verifiers meet.
\* A top-level value whose type is not index (an f32 function argument).
NonIndexValues == {"f1"}
\* The block argument of a region whose parent is neither a FuncOp nor an
\* AffineForOp (the induction variable of a loop.for).
OtherBlockArgs == {"a1"}
\* The index result of an operation nested in a loop body that is no
\* ConstantOp, AffineApplyOp or DimOp (an addi).
OtherOpValues == {"n1"}
\* The result of a DimOp nested in a loop body.
DimValues == {"d1"}

AllValues == Values \cup NonIndexValues \cup OtherBlockArgs
               \cup OtherOpValues \cup DimValues

\* What defines the memref a DimOp queries: a top-level value, a ViewOp, a
\* SubViewOp or an AllocOp nested in a loop body, another nested operation
\* (a memref_cast), or nothing, the memref being the block argument of a
\* nested region that is no function body.
MemRefKinds == {"topLevel", "view", "subview", "alloc", "otherOp", "blockArg"}

\* The integer of a ConstantOp result (m_Constant).
ConstantOf(v) == IF v = "c7" THEN 7 ELSE 0

\* isa<AffineApplyOp>(v.getDefiningOp())
IsAffineApply(v) == v \in ApplyValues

\* value.getType().isIndex()
isIndex(v) == v \notin NonIndexValues

\* value.getDefiningOp() is not null: v is no block argument.
hasDefiningOp(v) ==
  v \in TopLevelOpValues \cup ConstantValues \cup ApplyValues
          \cup OtherOpValues \cup DimValues

isTopLevelValue(v) == v \in TopLevelValues \cup NonIndexValues

\* Mutant of dimOpIsValidDim: no DimOp result is a valid dim.
dimOpIsValidDimNever(v) == FALSE

\* The DimOp branch of isValidDim: isTopLevelValue(dimOp.getOperand()).
dimOpIsValidDim(v) == dimOps[v].memref = "topLevel"

RECURSIVE isValidDim(_)
isValidDim(v) ==
  IF ~isIndex(v) THEN FALSE
  ELSE IF hasDefiningOp(v) THEN
    IF v \in TopLevelOpValues \cup ConstantValues THEN TRUE
    ELSE IF IsAffineApply(v)
      THEN \A i \in 1..Len(ops[v].operands) : isValidDim(ops[v].operands[i])
    ELSE IF v \in DimValues THEN dimOpIsValidDim(v)
    ELSE FALSE
  ELSE v \in FunctionArguments \cup InductionVars

RECURSIVE isValidSymbol(_)

\* isMemRefSizeValidSymbol: the queried dimension is static, or the dynamic
\* size operand of the operation defining the memref is a valid symbol.
isMemRefSizeValidSymbol(d) == d.static \/ isValidSymbol(d.size)

\* dimOp.getOperand().getDefiningOp() is null: the dyn_cast of
\* isDimOpValidSymbol is applied to a null pointer.
dimOpCastsNull(v) == dimOps[v].memref = "blockArg"

\* isDimOpValidSymbol on a DimOp whose memref has a defining operation or is
\* defined at the top level.
isDimOpValidSymbol(v) ==
  IF dimOps[v].memref = "topLevel" THEN TRUE
  ELSE IF dimOps[v].memref \in {"view", "subview", "alloc"}
    THEN isMemRefSizeValidSymbol(dimOps[v])
  ELSE FALSE

isValidSymbol(v) ==
  IF ~isIndex(v) THEN FALSE
  ELSE IF v \in TopLevelOpValues \cup ConstantValues THEN TRUE
  ELSE IF IsAffineApply(v)
    THEN \A i \in 1..Len(ops[v].operands) : isValidSymbol(ops[v].operands[i])
  ELSE IF v \in DimValues THEN isDimOpValidSymbol(v)
  ELSE isTopLevelValue(v)

RECURSIVE symbolQueryCastsNull(_)
\* isValidSymbol(v) reaches the dyn_cast of a null pointer: v is a DimOp on
\* a nested block argument, or an affine.apply whose operands are valid
\* symbols up to one that reaches it (all_of stops at the first failure).
symbolQueryCastsNull(v) ==
  IF v \in DimValues THEN
    \/ dimOpCastsNull(v)
    \/ /\ dimOps[v].memref \in {"view", "subview", "alloc"}
       /\ ~dimOps[v].static
       /\ symbolQueryCastsNull(dimOps[v].size)
  ELSE IF IsAffineApply(v) THEN
    \E i \in 1..Len(ops[v].operands) :
      /\ symbolQueryCastsNull(ops[v].operands[i])
      /\ \A j \in 1..(i - 1) :
           /\ ~symbolQueryCastsNull(ops[v].operands[j])
           /\ isValidSymbol(ops[v].operands[j])
  ELSE FALSE

\* What a query answers.
Answer(b) == IF b THEN "true" ELSE "false"

\* What a build can produce where the code's behaviour is undefined: a
\* failed assertion or a fault, or either answer.
UndefinedOutcomes == {"abort", "true", "false"}

\* The outcomes of isValidSymbol(v).
isValidSymbolOutcomes(v) ==
  IF symbolQueryCastsNull(v) THEN UndefinedOutcomes ELSE {Answer(isValidSymbol(v))}

\* verifyDimAndSymbolIdentifiers: the first numDims operands are valid dims
\* and the others are valid symbols.
verifyDimAndSymbolIdentifiers(m, os) ==
  \A i \in 1..Len(os) :
    IF (i - 1) < m.numDims THEN isValidDim(os[i]) ELSE isValidSymbol(os[i])

\* isValidAffineIndexOperand: a valid dim or a valid symbol.
isValidAffineIndexOperand(v) == isValidDim(v) \/ isValidSymbol(v)

\* Integer assignments to the values that no operation of the model
\* computes.
Env(k) == [v \in BaseValues |->
            CASE v = "t1" -> k + 1
              [] v = "t2" -> 5 * k + 7
              [] v = "i1" -> 50 * k + 11
              [] v = "c7" -> ConstantOf(v)]
Envs == {Env(k) : k \in 1..NumEnvs}

RECURSIVE ValueOf(_, _)
\* The integer a value takes under env: the result of an affine.apply is
\* what its map computes on its operands.
ValueOf(v, env) ==
  IF IsAffineApply(v) THEN
    LET m == ops[v].map
        os == ops[v].operands
    IN EvalExpr(m.results[1],
                [i \in 1..m.numDims |-> ValueOf(os[i], env)],
                [j \in 1..m.numSymbols |-> ValueOf(os[m.numDims + j], env)])
  ELSE env[v]

\* Result vector of map m on operand list os under env.
EvalMap(m, os, env) ==
  [r \in 1..Len(m.results) |->
     EvalExpr(m.results[r],
              [i \in 1..m.numDims |-> ValueOf(os[i], env)],
              [j \in 1..m.numSymbols |-> ValueOf(os[m.numDims + j], env)])]

\* (m2, os2) is a well-formed pair computing what (m1, os1) computes.
SameFunction(m1, os1, m2, os2) ==
  /\ WellFormed(m2)
  /\ Len(os2) = getNumInputs(m2)
  /\ \A env \in Envs : EvalMap(m1, os1, env) = EvalMap(m2, os2, env)

----------------------------------------------------------------------------
(* AffineApplyNormalizer                                                   *)

\* static constexpr unsigned kMaxAffineApplyDepth
kMaxAffineApplyDepth == 1

\* dimValueToPosition: the position assigned to a renumbered dimension.
dimValueToPosition(reorderedDims, v) ==
  (CHOOSE k \in 1..Len(reorderedDims) : reorderedDims[k] = v) - 1

\* renumberOneDim, the state change: insert v unless it has a position.
renumberOneDimState(st, v) ==
  IF v \in Seq2Set(st.reorderedDims) THEN st
  ELSE [st EXCEPT !.reorderedDims = Append(@, v)]

\* renumberOneDim, the expression returned (in the state after the insert).
renumberOneDim(st, v) ==
  Dim(dimValueToPosition(renumberOneDimState(st, v).reorderedDims, v))

RECURSIVE renumberDims(_, _, _)
\* The first loop of renumber: every dimension of `other` gets a position
\* in this normalizer.
renumberDims(st, otherDims, k) ==
  IF k > Len(otherDims) THEN st
  ELSE renumberDims(renumberOneDimState(st, otherDims[k]), otherDims, k + 1)

\* renumber: the normalizer after renumbering `other` into it, and the map
\* of `other` in this normalizer's numbering.
renumber(st, other) ==
  LET st1 == renumberDims(st, other.reorderedDims, 1)
      dimRemapping == [k \in 1..Len(other.reorderedDims) |->
                         Dim(dimValueToPosition(st1.reorderedDims, other.reorderedDims[k]))]
      numSymbols == Len(st.concatenatedSymbols)
      numOtherSymbols == Len(other.concatenatedSymbols)
      symRemapping == [idx \in 1..numOtherSymbols |-> Sym(idx - 1 + numSymbols)]
      st2 == [st1 EXCEPT !.concatenatedSymbols = @ \o other.concatenatedSymbols]
  IN [st |-> st2,
      map |-> replaceDimsAndSymbols(other.affineMap, dimRemapping, symRemapping,
                Len(st2.reorderedDims), Len(st2.concatenatedSymbols))]

\* Positions (0-based) of the operands produced by an AffineApplyOp.
indicesFromAffineApplyOp(os) == {i - 1 : i \in {j \in 1..Len(os) : IsAffineApply(os[j])}}

promoteComposedSymbolsAsDims(m, symbols) ==
  LET symPositions == indicesFromAffineApplyOp(symbols)
      numDims == m.numDims
      numSymbols == m.numSymbols
      \* number of positions < i that are (not) rewritten as dims
      newDimsBefore(i) == Cardinality({p \in symPositions : p < i})
      newSymsBefore(i) == i - newDimsBefore(i)
      symReplacements == [i \in 1..numSymbols |->
                            IF (i - 1) \in symPositions
                            THEN Dim(numDims + newDimsBefore(i - 1))
                            ELSE Sym(newSymsBefore(i - 1))]
      numNewDims == Cardinality(symPositions)
  IN IF symbols = <<>> \/ symPositions = {} THEN m
     ELSE replaceDimsAndSymbols(m, <<>>, symReplacements,
            numDims + numNewDims, numSymbols - numNewDims)

\* The sanity check of promoteComposedSymbolsAsDims.
symbolsAssertHolds(symbols) ==
  \A i \in 1..Len(symbols) : isValidSymbol(symbols[i])

\* take_back(n): the last n elements.
takeBack(s, n) == SubSeq(s, Len(s) - n + 1, Len(s))

RECURSIVE dispatchOperands(_, _, _, _)
\* Branch 1 of the constructor (no further composition): the first
\* map.getNumDims() operands are renumbered as dims, the others are
\* concatenated as symbols.
dispatchOperands(rmap, os, i, st) ==
  IF i > Len(os) THEN st
  ELSE LET t == os[i]
           isDim == (i - 1) < rmap.numDims
       IN IF isDim
          THEN dispatchOperands(rmap, os, i + 1,
                 [renumberOneDimState(st, t) EXCEPT
                    !.auxiliaryExprs = Append(@, renumberOneDim(st, t))])
          ELSE dispatchOperands(rmap, os, i + 1,
                 [st EXCEPT !.concatenatedSymbols = Append(@, t)])

\* Mutant of pushRenumbered: the producer is not inlined, its first
\* renumbered dimension stands for its result.
pushRenumberedDimOnly(rn, nestedAssertOk) ==
  [rn.st EXCEPT !.auxiliaryExprs = Append(@, Dim(0)),
                !.assertOk = @ /\ nestedAssertOk]

\* Case a of branch 2: the renumbered map of the nested normalizer gives
\* the auxiliary expression of the operand.
pushRenumbered(rn, nestedAssertOk) ==
  [rn.st EXCEPT !.auxiliaryExprs = Append(@, rn.map.results[1]),
                !.assertOk = @ /\ nestedAssertOk]

\* Case a of branch 2 for the nested normalizer; the deeper of the two
\* values of affineApplyDepth() is kept.
composeApply(st, normalizer) ==
  pushRenumbered(
    renumber([st EXCEPT !.nesting =
                IF @ >= normalizer.nesting THEN @ ELSE normalizer.nesting],
             normalizer),
    normalizer.assertOk)

\* Mutant of normalizerFinish: the auxiliary map is given every
\* concatenated symbol, the symbols of the map included.
normalizerFinishAllSymbols(rmap, st) ==
  IF st.auxiliaryExprs = <<>> THEN st
  ELSE [st EXCEPT !.affineMap =
          simplifyAffineMap(compose(rmap,
            AffineMapGet(Len(st.reorderedDims),
                         Len(st.concatenatedSymbols),
                         st.auxiliaryExprs)))]

\* The auxiliary map of the constructor: numDims renumbered dimensions,
\* concatenatedSymbols.size() - map.getNumSymbols() symbols.
auxiliaryMap(rmap, st) ==
  AffineMapGet(Len(st.reorderedDims),
               Len(st.concatenatedSymbols) - rmap.numSymbols,
               st.auxiliaryExprs)

\* The end of the constructor: early exit when no auxiliary expression was
\* formed, else compose the rewritten map with the auxiliary map.
normalizerFinish(rmap, st) ==
  IF st.auxiliaryExprs = <<>> THEN st
  ELSE [st EXCEPT !.affineMap =
          simplifyAffineMap(compose(rmap, auxiliaryMap(rmap, st)))]

\* The members of a Normalizer under construction.  nesting is the deepest
\* value affineApplyDepth() took while it was constructed.
normalizerInit(rmap, assertOk, depth) ==
  [reorderedDims |-> <<>>, concatenatedSymbols |-> <<>>,
   auxiliaryExprs |-> <<>>, affineMap |-> rmap, assertOk |-> assertOk,
   nesting |-> depth]

RECURSIVE AffineApplyNormalizer(_, _, _)
RECURSIVE composeOperands(_, _, _, _, _)
RECURSIVE normalizerBody(_, _, _, _, _)
\* Mutant of normalizerBody: the depth test is strict, so the outermost
\* normalizer does not compose either.
normalizerBodyStrictDepth(numDimsBeforeRewrite, rmap, os, depth, assertOk) ==
  normalizerFinish(rmap,
    IF ~(depth < kMaxAffineApplyDepth)
    THEN dispatchOperands(rmap, os, 1, normalizerInit(rmap, assertOk, depth))
    ELSE composeOperands(numDimsBeforeRewrite, os, 1, normalizerInit(rmap, assertOk, depth), depth))

\* Mutant of normalizerBody: producers are composed at every depth.
normalizerBodyAnyDepth(numDimsBeforeRewrite, rmap, os, depth, assertOk) ==
  normalizerFinish(rmap,
    composeOperands(numDimsBeforeRewrite, os, 1, normalizerInit(rmap, assertOk, depth), depth))

\* The constructor after the rewrite of the map: rmap is the rewritten map.
normalizerBody(numDimsBeforeRewrite, rmap, os, depth, assertOk) ==
  normalizerFinish(rmap,
    IF ~(depth <= kMaxAffineApplyDepth)
    THEN dispatchOperands(rmap, os, 1, normalizerInit(rmap, assertOk, depth))
    ELSE composeOperands(numDimsBeforeRewrite, os, 1, normalizerInit(rmap, assertOk, depth), depth))

\* Branch 2 of the constructor: operands produced by an affine.apply are
\* normalized recursively and renumbered into this normalizer; the others
\* are dispatched to dims (i < numDimsBeforeRewrite) or symbols.
composeOperands(numDimsBeforeRewrite, os, i, st, depth) ==
  IF i > Len(os) THEN st
  ELSE LET t == os[i] IN
    IF IsAffineApply(t) THEN
      composeOperands(numDimsBeforeRewrite, os, i + 1,
        composeApply(st, AffineApplyNormalizer(ops[t].map, ops[t].operands, depth + 1)),
        depth)
    ELSE IF (i - 1) < numDimsBeforeRewrite THEN
      composeOperands(numDimsBeforeRewrite, os, i + 1,
        [renumberOneDimState(st, t) EXCEPT
           !.auxiliaryExprs = Append(@, renumberOneDim(st, t))],
        depth)
    ELSE
      composeOperands(numDimsBeforeRewrite, os, i + 1,
        [st EXCEPT !.concatenatedSymbols = Append(@, t)], depth)

\* The constructor AffineApplyNormalizer(map, operands), run while
\* affineApplyDepth() = depth.  assertOk records whether the sanity checks
\* on the symbol operands held.
AffineApplyNormalizer(m, os, depth) ==
  normalizerBody(m.numDims,
                 promoteComposedSymbolsAsDims(m, takeBack(os, m.numSymbols)),
                 os, depth, symbolsAssertHolds(takeBack(os, m.numSymbols)))

\* AffineApplyNormalizer::getOperands
getOperands(n) == n.reorderedDims \o n.concatenatedSymbols

----------------------------------------------------------------------------
(* canonicalizeMapAndOperands                                              *)

RECURSIVE promotedSymbolsLoop(_, _, _, _)
\* The loop of canonicalizePromotedSymbols over the inputs i (1-based).
promotedSymbolsLoop(m, os, i, acc) ==
  IF i > getNumInputs(m) THEN acc
  ELSE IF (i - 1) < m.numDims THEN
    IF isValidSymbol(os[i]) THEN
      \* a valid symbol that appears as a dim
      promotedSymbolsLoop(m, os, i + 1,
        [acc EXCEPT !.dimRemapping = Append(@, Sym(m.numSymbols + acc.nextSym)),
                    !.nextSym = @ + 1,
                    !.remappedSymbols = Append(@, os[i])])
    ELSE
      promotedSymbolsLoop(m, os, i + 1,
        [acc EXCEPT !.dimRemapping = Append(@, Dim(acc.nextDim)),
                    !.nextDim = @ + 1,
                    !.resultOperands = Append(@, os[i])])
  ELSE
    promotedSymbolsLoop(m, os, i + 1,
      [acc EXCEPT !.resultOperands = Append(@, os[i])])

\* Mutant of promotedSymbolsResult: the promoted operands are put before
\* the operands kept in place.
promotedSymbolsResultPrepended(m, r) ==
  [map |-> replaceDimsAndSymbols(m, r.dimRemapping, <<>>, r.nextDim,
             m.numSymbols + r.nextSym),
   operands |-> r.remappedSymbols \o r.resultOperands]

promotedSymbolsResult(m, r) ==
  [map |-> replaceDimsAndSymbols(m, r.dimRemapping, <<>>, r.nextDim,
             m.numSymbols + r.nextSym),
   operands |-> r.resultOperands \o r.remappedSymbols]

canonicalizePromotedSymbols(m, os) ==
  IF os = <<>> THEN [map |-> m, operands |-> os]
  ELSE promotedSymbolsResult(m,
         promotedSymbolsLoop(m, os, 1,
           [dimRemapping |-> <<>>, nextDim |-> 0, nextSym |-> 0,
            resultOperands |-> <<>>, remappedSymbols |-> <<>>]))

\* usedDims / usedSyms of the walk over the result expressions.
usedDims(m) == UNION {DimsOf(m.results[i]) : i \in 1..Len(m.results)}

\* Mutant of usedSyms: every symbol position counts as used.
usedSymsAll(m) == 0..(m.numSymbols - 1)

usedSyms(m) == UNION {SymsOf(m.results[i]) : i \in 1..Len(m.results)}

\* Mutant of seenHas: the lookup of an operand already seen never succeeds.
seenHasNever(seen, v) == FALSE

\* seenDims / seenSymbols: the expression remembered for an operand.
seenLookup(seen, v) == seen[CHOOSE k \in 1..Len(seen) : seen[k][1] = v][2]

\* seenDims.find(v) != seenDims.end()
seenHas(seen, v) == \E k \in 1..Len(seen) : seen[k][1] = v

RECURSIVE dimsLoop(_, _, _, _)
\* The loop over the dimensions: used dims with duplicate operands share
\* one position; unused dims keep a null remapping and no operand.
dimsLoop(m, os, i, acc) ==
  IF i > m.numDims THEN acc
  ELSE IF (i - 1) \in usedDims(m) THEN
    IF ~seenHas(acc.seenDims, os[i]) THEN
      dimsLoop(m, os, i + 1,
        [acc EXCEPT !.dimRemapping = Append(@, Dim(acc.nextDim)),
                    !.nextDim = @ + 1,
                    !.resultOperands = Append(@, os[i]),
                    !.seenDims = Append(@, <<os[i], Dim(acc.nextDim)>>)])
    ELSE
      dimsLoop(m, os, i + 1,
        [acc EXCEPT !.dimRemapping = Append(@, seenLookup(acc.seenDims, os[i]))])
  ELSE
    dimsLoop(m, os, i + 1, [acc EXCEPT !.dimRemapping = Append(@, NullExpr)])

\* Mutant of isConstantOperand: no operand is recognised as a constant.
isConstantOperandNever(v) == FALSE

\* matchPattern(operand, m_Constant(&operandCst))
isConstantOperand(v) == v \in ConstantValues

RECURSIVE symsLoop(_, _, _, _)
\* The loop over the symbols: unused symbols are skipped, constant operands
\* become constant expressions, duplicate operands share one position.
symsLoop(m, os, i, acc) ==
  IF i > m.numSymbols THEN acc
  ELSE LET v == os[i + m.numDims] IN
    IF (i - 1) \notin usedSyms(m) THEN
      symsLoop(m, os, i + 1, [acc EXCEPT !.symRemapping = Append(@, NullExpr)])
    ELSE IF isConstantOperand(v) THEN
      symsLoop(m, os, i + 1,
        [acc EXCEPT !.symRemapping = Append(@, Cst(ConstantOf(v)))])
    ELSE IF ~seenHas(acc.seenSymbols, v) THEN
      symsLoop(m, os, i + 1,
        [acc EXCEPT !.symRemapping = Append(@, Sym(acc.nextSym)),
                    !.nextSym = @ + 1,
                    !.resultOperands = Append(@, v),
                    !.seenSymbols = Append(@, <<v, Sym(acc.nextSym)>>)])
    ELSE
      symsLoop(m, os, i + 1,
        [acc EXCEPT !.symRemapping = Append(@, seenLookup(acc.seenSymbols, v))])

\* Mutant of canonicalResult: the new map keeps the old number of dims.
canonicalResultOldDims(m, d, s) ==
  [map |-> replaceDimsAndSymbols(m, d.dimRemapping, s.symRemapping,
             m.numDims, s.nextSym),
   operands |-> s.resultOperands]

\* Mutant of canonicalResult: the symbol operands are returned before the
\* dim operands.
canonicalResultSymbolsFirst(m, d, s) ==
  [map |-> replaceDimsAndSymbols(m, d.dimRemapping, s.symRemapping,
             d.nextDim, s.nextSym),
   operands |-> SubSeq(s.resultOperands, Len(d.resultOperands) + 1,
                       Len(s.resultOperands)) \o d.resultOperands]

\* The end of canonicalizeMapOrSetAndOperands: d and s are what the two
\* loops computed.
canonicalResult(m, d, s) ==
  [map |-> replaceDimsAndSymbols(m, d.dimRemapping, s.symRemapping,
             d.nextDim, s.nextSym),
   operands |-> s.resultOperands]

canonicalSymbols(m, os, d) ==
  canonicalResult(m, d,
    symsLoop(m, os, 1,
      [symRemapping |-> <<>>, nextSym |-> 0,
       resultOperands |-> d.resultOperands, seenSymbols |-> <<>>]))

\* canonicalizeMapOrSetAndOperands after the promotion of the symbols.
canonicalDimsAndSymbols(p) ==
  canonicalSymbols(p.map, p.operands,
    dimsLoop(p.map, p.operands, 1,
      [dimRemapping |-> <<>>, nextDim |-> 0,
       resultOperands |-> <<>>, seenDims |-> <<>>]))

\* Mutant of canonicalizeMapOrSetAndOperands: the dims that are valid symbols
\* are promoted after the two loops instead of before them.
canonicalizePromotedLast(m0, os0) ==
  IF os0 = <<>> THEN [map |-> m0, operands |-> os0]
  ELSE canonicalizePromotedSymbols(
         canonicalDimsAndSymbols([map |-> m0, operands |-> os0]).map,
         canonicalDimsAndSymbols([map |-> m0, operands |-> os0]).operands)

canonicalizeMapOrSetAndOperands(m0, os0) ==
  IF os0 = <<>> THEN [map |-> m0, operands |-> os0]
  ELSE canonicalDimsAndSymbols(canonicalizePromotedSymbols(m0, os0))

canonicalizeMapAndOperands(m, os) == canonicalizeMapOrSetAndOperands(m, os)

----------------------------------------------------------------------------
(* Entry points                                                            *)

withAssertOk(c, assertOk) ==
  [map |-> c.map, operands |-> c.operands, assertOk |-> assertOk]

canonicalizeNormalized(normalizer) ==
  withAssertOk(canonicalizeMapAndOperands(normalizer.affineMap, getOperands(normalizer)),
               normalizer.assertOk)

\* composeAffineMapAndOperands: Normalizer, then Canonicalizer.  assertOk
\* tells whether the Normalizer's sanity checks held on the way.
composeAffineMapAndOperands(m, os) ==
  canonicalizeNormalized(AffineApplyNormalizer(m, os, 1))

\* The loop condition of fullyComposeAffineMapAndOperands.
anyAffineApply(os) == \E i \in 1..Len(os) : IsAffineApply(os[i])

\* Mutant of noChange: only the maps are compared.
noChangeMapsOnly(m, os, m0, os0) == m = m0

\* The test of SimplifyAffineOp::matchAndRewrite that reports matchFailure:
\* same map and std::equal over the old operands.
noChange(m, os, m0, os0) ==
  /\ m = m0
  /\ \A i \in 1..Len(os0) : i <= Len(os) /\ os[i] = os0[i]

----------------------------------------------------------------------------
(* The maps and operations the model draws its inputs from.                *)

\* (d0)[s0] -> (d0 + s0)
MapDimPlusSym == AffineMapGet(1, 1, <<Bin("add", Dim(0), Sym(0))>>)
\* (d0) -> (d0 + 1)
MapDimPlusOne == AffineMapGet(1, 0, <<Bin("add", Dim(0), Cst(1))>>)
\* (d0, d1) -> (d0, d1)
MapIdentity2 == AffineMapGet(2, 0, <<Dim(0), Dim(1)>>)
\* (d0) -> (d0)
MapIdentity1 == AffineMapGet(1, 0, <<Dim(0)>>)
\* (d0)[s0] -> (d0 + s0 * 2)
MapDimPlusTwoSym == AffineMapGet(1, 1, <<Bin("add", Dim(0), Bin("mul", Sym(0), Cst(2)))>>)
\* ()[s0, s1] -> (s0 + s1 * 2)
MapSymPlusTwoSym == AffineMapGet(0, 2, <<Bin("add", Sym(0), Bin("mul", Sym(1), Cst(2)))>>)

ConsumerMaps == {MapDimPlusSym, MapIdentity2, MapIdentity1,
                 MapDimPlusTwoSym, MapSymPlusTwoSym}

ApplyOp(m, os) == [map |-> m, operands |-> os]

\* The affine.apply operations p1 may be: its operands are values defined
\* before it.  AffineApplyOp::verify checks the operand count and the
\* single result only, so any index value may stand at a symbol position.
P1Ops ==
  {ApplyOp(MapDimPlusSym, os) :
     os \in {<<"i1", "t1">>, <<"i1", "c7">>, <<"t1", "t1">>, <<"t1", "t2">>, <<"i1", "i1">>}}
  \cup {ApplyOp(MapDimPlusOne, <<d>>) : d \in {"t1", "i1"}}
  \cup {ApplyOp(MapIdentity1, <<"i1">>)}
  \cup {ApplyOp(MapSymPlusTwoSym, <<"t1", "t2">>)}

\* The affine.apply operations p2 may be: each has p1 among its operands,
\* at a dim or at a symbol position.
P2Ops ==
  {ApplyOp(MapDimPlusOne, <<"p1">>),
   ApplyOp(MapDimPlusSym, <<"p1", "t1">>),
   ApplyOp(MapDimPlusSym, <<"i1", "p1">>),
   ApplyOp(MapSymPlusTwoSym, <<"t2", "p1">>)}

\* What a producer is when the computation does not reach it.
DefaultP1 == ApplyOp(MapIdentity1, <<"t1">>)
DefaultP2 == ApplyOp(MapDimPlusOne, <<"p1">>)

OperandLists(m) == [1..getNumInputs(m) -> Values]

\* A call of a method of AffineMap: the maps it is given (`this` first) and,
\* for constantFold, the operand attributes.
MethodCall(method, maps, operandConstants) ==
  [method |-> method, maps |-> maps, operandConstants |-> operandConstants]

NoCall == MethodCall("none", <<>>, <<>>)

\* A DimOp: what defines its memref, whether the queried dimension is
\* static and, when it is dynamic, the size operand of the view, subview or
\* alloc that stands for it.
DimOp(k, st, sz) == [memref |-> k, static |-> st, size |-> sz]

\* What the DimOp is when no query reaches it.
DefaultDim == DimOp("topLevel", TRUE, "t1")

Init ==
  /\ \E m \in ConsumerMaps : \E os \in OperandLists(m) :
       /\ map = m
       /\ operands = os
       /\ \E o2 \in (IF "p2" \in Seq2Set(os) THEN P2Ops ELSE {DefaultP2}) :
          \E o1 \in (IF {"p1", "p2"} \cap Seq2Set(os) # {} THEN P1Ops ELSE {DefaultP1}) :
            ops = [v \in ApplyValues |-> IF v = "p1" THEN o1 ELSE o2]
  /\ oldMap = map
  /\ oldOperands = operands
  /\ pc = "start"
  /\ matched = FALSE
  /\ iters = 0
  /\ steps = 0
  /\ dimOps = [v \in DimValues |-> DefaultDim]
  /\ value = "none"
  /\ op = "none"
  /\ result = "none"
  /\ args = NoCall
  /\ ret = <<>>

----------------------------------------------------------------------------
(* Actions: one per entry point.                                           *)

Idle == pc \in {"start", "normalized", "canonicalized", "composed", "fullyDone", "rewritten"}

\* An entry point starts on the computation's current pair.
Enter ==
  /\ Idle
  /\ steps < MaxSteps
  /\ steps' = steps + 1
  /\ oldMap' = map
  /\ oldOperands' = operands
  /\ ops' = ops
  /\ UNCHANGED queryVars

\* A failed assert ends the run in a build with assertions.
Abort ==
  /\ pc' = "aborted"
  /\ UNCHANGED <<map, operands, matched, iters>>

\* AffineApplyNormalizer(map, operands) and its getAffineMap/getOperands.
Normalize ==
  /\ Enter
  /\ \E n \in {AffineApplyNormalizer(map, operands, 1)} :
        \/ /\ map' = n.affineMap
           /\ operands' = getOperands(n)
           /\ pc' = "normalized"
           /\ UNCHANGED <<matched, iters>>
        \/ ~n.assertOk /\ Abort

Canonicalize ==
  /\ Enter
  /\ \E c \in {canonicalizeMapAndOperands(map, operands)} :
        /\ map' = c.map
        /\ operands' = c.operands
  /\ pc' = "canonicalized"
  /\ UNCHANGED <<matched, iters>>

Compose ==
  /\ Enter
  /\ \E c \in {composeAffineMapAndOperands(map, operands)} :
        \/ /\ map' = c.map
           /\ operands' = c.operands
           /\ pc' = "composed"
           /\ UNCHANGED <<matched, iters>>
        \/ ~c.assertOk /\ Abort

\* fullyComposeAffineMapAndOperands is called.
FullyComposeCall ==
  /\ Enter
  /\ pc' = "fully"
  /\ iters' = 0
  /\ UNCHANGED <<map, operands, matched>>

\* One iteration of its loop.
FullyComposeStep ==
  /\ pc = "fully"
  /\ anyAffineApply(operands)
  /\ \E c \in {composeAffineMapAndOperands(map, operands)} :
        \/ /\ map' = c.map
           /\ operands' = c.operands
           /\ pc' = "fully"
           /\ iters' = iters + 1
           /\ UNCHANGED matched
        \/ ~c.assertOk /\ Abort
  /\ UNCHANGED <<ops, oldMap, oldOperands, steps>>
  /\ UNCHANGED queryVars

\* The loop condition fails and the function returns.
FullyComposeReturn ==
  /\ pc = "fully"
  /\ ~anyAffineApply(operands)
  /\ pc' = "fullyDone"
  /\ UNCHANGED <<ops, map, operands, oldMap, oldOperands, matched, iters, steps>>
  /\ UNCHANGED queryVars

\* SimplifyAffineOp::matchAndRewrite: the op keeps its pair on matchFailure
\* and is replaced by one carrying the composed pair on matchSuccess.
MatchAndRewrite ==
  /\ Enter
  /\ \E c \in {composeAffineMapAndOperands(map, operands)} :
        \/ /\ IF noChange(c.map, c.operands, map, operands)
              THEN /\ matched' = FALSE
                   /\ UNCHANGED <<map, operands>>
              ELSE /\ matched' = TRUE
                   /\ map' = c.map
                   /\ operands' = c.operands
           /\ pc' = "rewritten"
           /\ UNCHANGED iters
        \/ ~c.assertOk /\ Abort

Next ==
  \/ Normalize
  \/ Canonicalize
  \/ Compose
  \/ FullyComposeCall
  \/ FullyComposeStep
  \/ FullyComposeReturn
  \/ MatchAndRewrite

Spec == Init /\ [][Next]_vars

----------------------------------------------------------------------------
(* The operand classifier, asked about one value of the IR.                *)

\* The operands the affine.apply p1 may have when the classifier is asked.
ClassifiedOperands == {"t1", "i1", "c7", "n1", "d1"}

ClassifiedP1Ops ==
  {ApplyOp(MapIdentity1, <<x>>) : x \in ClassifiedOperands}
  \cup {ApplyOp(MapDimPlusSym, <<x, y>>) :
          x \in ClassifiedOperands, y \in ClassifiedOperands}

\* The dynamic size operands a view, subview or alloc may have.
SizeOperands == {"t1", "i1", "n1"}

\* The DimOps d1 may be.
DimOps ==
  {DimOp(k, TRUE, "t1") : k \in MemRefKinds}
  \cup {DimOp(k, FALSE, sz) : k \in {"view", "subview", "alloc"}, sz \in SizeOperands}
  \cup {DimOp(k, FALSE, "t1") : k \in {"topLevel", "otherOp", "blockArg"}}

\* The IR a query about the values vs can reach: p1 is drawn when vs holds
\* an affine.apply, d1 when vs or p1 holds it.
QueryIR(vs, p1Ops) ==
  \E o1 \in (IF vs \cap ApplyValues # {} THEN p1Ops ELSE {DefaultP1}) :
  \E d \in (IF "d1" \in vs \/ (vs \cap ApplyValues # {} /\ "d1" \in Seq2Set(o1.operands))
             THEN DimOps ELSE {DefaultDim}) :
    /\ ops = [v \in ApplyValues |-> IF v = "p1" THEN o1 ELSE DefaultP2]
    /\ dimOps = [v \in DimValues |-> d]

\* A query about one value.
ClassifierInit ==
  /\ value \in AllValues
  /\ QueryIR({value}, ClassifiedP1Ops)
  /\ op = "none"
  /\ map = MapIdentity1
  /\ operands = <<"t1">>

\* The operations that carry a map and operands.
OpKinds == {"affine.apply", "affine.for", "affine.if", "affine.load",
            "affine.store", "affine.prefetch", "affine.min", "affine.max"}

\* The operands an operation under verification may have, and those of the
\* affine.apply p1 among them.
VerifiedOperands == {"i1", "t1", "n1", "p1"}
VerifiedP1Ops == {ApplyOp(MapIdentity1, <<x>>) : x \in {"t1", "i1", "n1"}}

\* A query about one operation: any operand list, of the length the map
\* asks for or not.
OpInit ==
  /\ op \in OpKinds
  /\ map \in {MapIdentity1, MapDimPlusSym}
  /\ \E n \in 0..MaxQueryOperands : operands \in [1..n -> VerifiedOperands]
  /\ QueryIR(Seq2Set(operands), VerifiedP1Ops)
  /\ value = "none"

QueryInit ==
  /\ (ClassifierInit \/ OpInit)
  /\ oldMap = map
  /\ oldOperands = operands
  /\ pc = "start"
  /\ result = "none"
  /\ matched = FALSE
  /\ iters = 0
  /\ steps = 0
  /\ args = NoCall
  /\ ret = <<>>

\* What a query leaves alone.
irVars == <<ops, dimOps, map, operands, oldMap, oldOperands, matched, iters,
            steps, value, op, args, ret>>

\* mlir::isValidDim(value)
IsValidDim ==
  /\ pc = "start"
  /\ value # "none"
  /\ result' = Answer(isValidDim(value))
  /\ pc' = "isValidDim"
  /\ UNCHANGED irVars

\* mlir::isValidSymbol(value)
IsValidSymbol ==
  /\ pc = "start"
  /\ value # "none"
  /\ result' \in isValidSymbolOutcomes(value)
  /\ pc' = "isValidSymbol"
  /\ UNCHANGED irVars

\* verifyDimAndSymbolIdentifiers called by a verifier.
dimAndSymbolDiagnostic(m, os) ==
  IF verifyDimAndSymbolIdentifiers(m, os) THEN "success"
  ELSE "failure: operand cannot be used as a dimension id or as a symbol"

\* The loop over the map operands of load, store and prefetch.
indexOperandDiagnostic(os) ==
  IF \E i \in 1..Len(os) : ~isIndex(os[i])
    THEN "failure: index must have 'index' type"
  ELSE IF \E i \in 1..Len(os) : ~isValidAffineIndexOperand(os[i])
    THEN "failure: index must be a dimension or symbol identifier"
  ELSE "success"

\* The verifier of an operation of kind k carrying map m and operands os.
verify(k, m, os) ==
  IF k = "affine.apply" THEN
    IF Len(os) # m.numDims + m.numSymbols
      THEN "failure: operand count and affine map dimension and symbol count must match"
    ELSE IF \E i \in 1..Len(os) : ~isIndex(os[i])
      THEN "failure: operands must be of type 'index'"
    ELSE IF Len(m.results) # 1 THEN "failure: mapping must produce one value"
    ELSE "success"
  ELSE IF k \in {"affine.for", "affine.if"} THEN
    IF Len(os) # getNumInputs(m)
      THEN "failure: operand count must match with dimension and symbol count"
    ELSE dimAndSymbolDiagnostic(m, os)
  ELSE IF k \in {"affine.load", "affine.store"} THEN
    IF getNumInputs(m) # Len(os)
      THEN "failure: expects as many subscripts as affine map inputs"
    ELSE indexOperandDiagnostic(os)
  ELSE IF k = "affine.prefetch" THEN
    IF getNumInputs(m) # Len(os) THEN "failure: too few operands"
    ELSE indexOperandDiagnostic(os)
  ELSE
    IF Len(os) # m.numDims + m.numSymbols
      THEN "failure: operand count and affine map dimension and symbol count must match"
    ELSE "success"

\* The diagnostics the verifiers report (emitOpError).
Diagnostics ==
  {"failure: operand cannot be used as a dimension id or as a symbol",
   "failure: index must have 'index' type",
   "failure: index must be a dimension or symbol identifier",
   "failure: operand count and affine map dimension and symbol count must match",
   "failure: operands must be of type 'index'",
   "failure: mapping must produce one value",
   "failure: operand count must match with dimension and symbol count",
   "failure: expects as many subscripts as affine map inputs",
   "failure: too few operands"}

\* The verifier of the operation runs.
Verify ==
  /\ pc = "start"
  /\ op # "none"
  /\ result' = verify(op, map, operands)
  /\ pc' = "verified"
  /\ UNCHANGED irVars

\* The operations whose build method takes a map and operands.
BuiltKinds == {"affine.apply", "affine.for", "affine.if", "affine.load", "affine.store"}

\* A build method called on (m, os): those of affine.for, affine.load and
\* affine.store assert the operand count, which ends a build with
\* assertions and is no check at all in one without them.
build(k, m, os) ==
  IF k \in {"affine.for", "affine.load", "affine.store"} /\ Len(os) # getNumInputs(m)
    THEN {"abort", "built"}
  ELSE {"built"}

Build ==
  /\ pc = "start"
  /\ op \in BuiltKinds
  /\ result' \in build(op, map, operands)
  /\ pc' = "built"
  /\ UNCHANGED irVars

\* composeAffineMapAndOperands or canonicalizeMapAndOperands called on a
\* pair whose operand count is not the map's number of inputs: the assert
\* at the head of the Normalizer or of the Canonicalizer fails, and without
\* assertions the operand list is indexed past its end.
SimplifyOnMismatch ==
  /\ pc = "start"
  /\ op # "none"
  /\ operands # <<>>
  /\ Len(operands) # getNumInputs(map)
  /\ result' \in {"abort", "undefined"}
  /\ pc' = "simplified"
  /\ UNCHANGED irVars

QueryNext ==
  \/ IsValidDim
  \/ IsValidSymbol
  \/ Verify
  \/ Build
  \/ SimplifyOnMismatch

QuerySpec == QueryInit /\ [][QueryNext]_vars

----------------------------------------------------------------------------
(* The methods of AffineMap, called on maps drawn from a catalogue.        *)

\* (d0, d1)[s0, s1] -> (d0 + 1 + s1, d1 - 1 - s0)
MapDoc1 ==
  AffineMapGet(2, 2,
    <<Bin("add", Bin("add", Dim(0), Cst(1)), Sym(1)),
      Bin("add", Bin("add", Dim(1), Cst(-1)), Bin("mul", Sym(0), Cst(-1)))>>)
\* (d0)[s0] -> (d0 + s0, d0 - s0)
MapDoc2 ==
  AffineMapGet(1, 1,
    <<Bin("add", Dim(0), Sym(0)),
      Bin("add", Dim(0), Bin("mul", Sym(0), Cst(-1)))>>)
\* (d0)[s0, s1] -> (d0 * 2 + s0 - s1 * 3)
MapTwoSymbols ==
  AffineMapGet(1, 2,
    <<Bin("add", Bin("add", Bin("mul", Dim(0), Cst(2)), Sym(0)),
          Bin("mul", Sym(1), Cst(-3)))>>)
\* (d0)[s0] -> (d0 floordiv 2 + s0)
MapHalfPlusSym ==
  AffineMapGet(1, 1, <<Bin("add", Bin("floordiv", Dim(0), Cst(2)), Sym(0))>>)
\* (d0, d1) -> (d0 - d1 * 2)
MapTwoDims ==
  AffineMapGet(2, 0, <<Bin("add", Dim(0), Bin("mul", Dim(1), Cst(-2)))>>)

ComposedMaps ==
  {MapDoc1, MapDoc2, MapTwoSymbols, MapHalfPlusSym, MapTwoDims,
   MapDimPlusSym, MapDimPlusOne, MapDimPlusTwoSym, MapSymPlusTwoSym}

\* The maps are composable: the number of dims of `this` is the number of
\* results of the producer.
Composable(this, producer) == this.numDims = Len(producer.results)

\* (d0) -> (d0 floordiv b), (d0) -> (d0 ceildiv b), (d0) -> (d0 mod b)
DivisionMaps ==
  {AffineMapGet(1, 0, <<Bin(o, Dim(0), Cst(b))>>) :
     o \in {"floordiv", "ceildiv", "mod"}, b \in 1..MaxDivisor}

\* The width of the signed integers of the model, standing for the 64 bits
\* of int64_t.
IntBits == 4

\* std::numeric_limits<int64_t>::max() at that width
Int64Max == 2^(IntBits - 1) - 1

\* An OpFoldResult: an existing value, an attribute, or nothing.
OpFoldResult(kind, operand, attr) == [kind |-> kind, operand |-> operand, attr |-> attr]

\* The operand attributes a fold hook is given: the constant an operand is
\* defined by, null for any other operand.
operandAttrs(os) ==
  [i \in 1..Len(os) |->
     IF isConstantOperand(os[i]) THEN IntegerAttr(ConstantOf(os[i])) ELSE NullAttr]

\* The end of AffineApplyOp::fold: default to folding the map.
applyFoldMap(f) ==
  IF ~f.ok THEN OpFoldResult("none", "none", 0)
  ELSE OpFoldResult("attr", "none", f.results[1])

\* Mutant of AffineApplyOpFold: a bare symbol is looked up among the
\* operands without the offset of the dims.
AffineApplyOpFoldNoOffset(m, os, operandConstants) ==
  IF m.results[1][1] = "dim" THEN OpFoldResult("value", os[m.results[1][2] + 1], 0)
  ELSE IF m.results[1][1] = "sym" THEN OpFoldResult("value", os[m.results[1][2] + 1], 0)
  ELSE applyFoldMap(constantFold(m, operandConstants))

\* AffineApplyOp::fold of the op with map m and operands os
AffineApplyOpFold(m, os, operandConstants) ==
  IF m.results[1][1] = "dim" THEN OpFoldResult("value", os[m.results[1][2] + 1], 0)
  ELSE IF m.results[1][1] = "sym"
       THEN OpFoldResult("value", os[m.numDims + m.results[1][2] + 1], 0)
  ELSE applyFoldMap(constantFold(m, operandConstants))

RECURSIVE minLoop(_, _, _)
\* The loop of AffineMinOp::fold over the folded results (i is 0-based).
minLoop(results, i, acc) ==
  IF i >= Len(results) THEN acc
  ELSE IF results[i + 1] < acc.min
       THEN minLoop(results, i + 1, [min |-> results[i + 1], minIndex |-> i])
       ELSE minLoop(results, i + 1, acc)

\* The end of AffineMinOp::fold: no result when no index was chosen.
minResult(results, acc) ==
  IF acc.minIndex < 0 THEN OpFoldResult("none", "none", 0)
  ELSE OpFoldResult("attr", "none", results[acc.minIndex + 1])

foldedMin(f) ==
  IF ~f.ok THEN OpFoldResult("none", "none", 0)
  ELSE minResult(f.results, minLoop(f.results, 0, [min |-> Int64Max, minIndex |-> -1]))

\* AffineMinOp::fold
AffineMinOpFold(m, operandConstants) == foldedMin(constantFold(m, operandConstants))

\* (d0)[s0] -> (s0)
MapSymOnly == AffineMapGet(1, 1, <<Sym(0)>>)

\* The maps of the folded affine.apply ops, () -> (7) among them.
FoldedApplyMaps ==
  {MapIdentity1, MapSymOnly, AffineMapGet(0, 0, <<Cst(7)>>), MapDimPlusSym,
   MapDimPlusTwoSym, MapHalfPlusSym}

\* The maps of the folded affine.min ops: (d0, d1) -> (d0, d1),
\* (d0) -> (d0), (d0) -> (d0, c).
FoldedMinMaps ==
  {MapIdentity2, MapIdentity1} \cup
  {AffineMapGet(1, 0, <<Dim(0), Cst(c)>>) : c \in {0, Int64Max}}

\* The operand attributes of the folded affine.min ops.
MinOperandAttrs ==
  {NullAttr} \cup
  {IntegerAttr(a) : a \in {-Int64Max - 1, -1, Int64Max - 1, Int64Max}}

\* The calls: compose on two maps, on three, constantFold on a division
\* and on a map one of whose operands may be no constant, the fold of an
\* affine.apply and of an affine.min.
MethodCalls ==
  \/ \E a \in ComposedMaps : \E b \in ComposedMaps :
        /\ Composable(a, b)
        /\ args = MethodCall("compose", <<a, b>>, <<>>)
        /\ operands = <<"t1">>
  \/ \E a \in ComposedMaps : \E b \in ComposedMaps : \E c \in ComposedMaps :
        /\ Composable(a, b)
        /\ Composable(b, c)
        /\ args = MethodCall("compose", <<a, b, c>>, <<>>)
        /\ operands = <<"t1">>
  \/ \E m \in DivisionMaps : \E a \in (-MaxDividend)..MaxDividend :
        /\ args = MethodCall("constantFold", <<m>>, <<IntegerAttr(a)>>)
        /\ operands = <<"t1">>
  \/ \E m \in {MapDimPlusSym} : \E a \in {NullAttr, IntegerAttr(MaxDividend)} :
        /\ args = MethodCall("constantFold", <<m>>, <<IntegerAttr(1), a>>)
        /\ operands = <<"t1">>
  \/ \E m \in FoldedApplyMaps : \E os \in [1..getNumInputs(m) -> {"t1", "i1", "c7"}] :
        /\ args = MethodCall("AffineApplyOp::fold", <<m>>, operandAttrs(os))
        /\ operands = os
  \/ \E m \in FoldedMinMaps : \E as \in [1..getNumInputs(m) -> MinOperandAttrs] :
        /\ args = MethodCall("AffineMinOp::fold", <<m>>, as)
        /\ operands = <<"t1">>

MethodInit ==
  /\ MethodCalls
  /\ ret = <<>>
  /\ pc = "start"
  /\ ops = [v \in ApplyValues |-> IF v = "p1" THEN DefaultP1 ELSE DefaultP2]
  /\ dimOps = [v \in DimValues |-> DefaultDim]
  /\ map = MapIdentity1
  /\ oldMap = map
  /\ oldOperands = operands
  /\ matched = FALSE
  /\ iters = 0
  /\ steps = 0
  /\ value = "none"
  /\ op = "none"
  /\ result = "none"

\* What a method of AffineMap leaves alone.
methodFrame == <<ops, dimOps, map, operands, oldMap, oldOperands, matched,
                 iters, steps, value, op, result, args>>

\* this.compose(producer)
ComposeMaps ==
  /\ pc = "start"
  /\ args.method = "compose"
  /\ Len(args.maps) = 2
  /\ ret' = compose(args.maps[1], args.maps[2])
  /\ pc' = "mapsComposed"
  /\ UNCHANGED methodFrame

\* a.compose(b).compose(c) and a.compose(b.compose(c))
ComposeThree ==
  /\ pc = "start"
  /\ args.method = "compose"
  /\ Len(args.maps) = 3
  /\ ret' = <<compose(compose(args.maps[1], args.maps[2]), args.maps[3]),
              compose(args.maps[1], compose(args.maps[2], args.maps[3]))>>
  /\ pc' = "threeComposed"
  /\ UNCHANGED methodFrame

\* map.constantFold(operandConstants, results)
ConstantFold ==
  /\ pc = "start"
  /\ args.method = "constantFold"
  /\ ret' = constantFold(args.maps[1], args.operandConstants)
  /\ pc' = "folded"
  /\ UNCHANGED methodFrame

\* AffineApplyOp::fold(operands) of the op with map args.maps[1]
FoldApply ==
  /\ pc = "start"
  /\ args.method = "AffineApplyOp::fold"
  /\ ret' = AffineApplyOpFold(args.maps[1], operands, args.operandConstants)
  /\ pc' = "applyFolded"
  /\ UNCHANGED methodFrame

\* AffineMinOp::fold(operands) of the op with map args.maps[1]
FoldMin ==
  /\ pc = "start"
  /\ args.method = "AffineMinOp::fold"
  /\ ret' = AffineMinOpFold(args.maps[1], args.operandConstants)
  /\ pc' = "minFolded"
  /\ UNCHANGED methodFrame

MethodNext ==
  \/ ComposeMaps
  \/ ComposeThree
  \/ ConstantFold
  \/ FoldApply
  \/ FoldMin

MethodSpec == MethodInit /\ [][MethodNext]_vars

----------------------------------------------------------------------------
(* Properties                                                              *)

\* The pair the current entry point was called on satisfies the operand
\* count rule and its map is well formed.
InputOk == WellFormed(oldMap) /\ Len(oldOperands) = getNumInputs(oldMap)

\* The operands of the pair the entry point was called on, and of every
\* affine.apply of the IR, are valid dims at dim positions and valid
\* symbols at symbol positions.
InputValid ==
  /\ verifyDimAndSymbolIdentifiers(oldMap, oldOperands)
  /\ \A v \in ApplyValues : verifyDimAndSymbolIdentifiers(ops[v].map, ops[v].operands)

\* The number of times v stands in os.
Count(os, v) == Cardinality({i \in 1..Len(os) : os[i] = v})

\* The operands bound to the symbols of m.
SymbolOperands(m, os) == SubSeq(os, m.numDims + 1, Len(os))

RECURSIVE ApplyDepth(_)
\* The longest chain of affine.apply producers ending in v.
ApplyDepth(v) ==
  IF ~IsAffineApply(v) THEN 0
  ELSE 1 + (CHOOSE d \in 0..Cardinality(ApplyValues) :
              /\ \A i \in 1..Len(ops[v].operands) : ApplyDepth(ops[v].operands[i]) <= d
              /\ \/ d = 0
                 \/ \E i \in 1..Len(ops[v].operands) : ApplyDepth(ops[v].operands[i]) = d)

\* The longest chain of producers ending in an operand of os.
OperandDepth(os) ==
  CHOOSE d \in 0..Cardinality(ApplyValues) :
    /\ \A i \in 1..Len(os) : ApplyDepth(os[i]) <= d
    /\ \/ d = 0
       \/ \E i \in 1..Len(os) : ApplyDepth(os[i]) = d

\* The row of coefficients of the single result of m.
ResultRow(m) == Flatten(m.results[1], m.numDims, m.numSymbols)

\* C1: the pair returned by composeAffineMapAndOperands evaluates, for every
\* assignment to the non-producer values, to the same result vector as the
\* pair it was called on (stated for the inputs whose operands are all valid
\* dims and valid symbols, on which no sanity check of the Normalizer fails,
\* and whose producers have no producer among their own operands, on which
\* the depth limit plays no part).
C1_ComposePreservesFunction ==
  (pc = "composed" /\ InputOk /\ InputValid /\ OperandDepth(oldOperands) <= 1) =>
    SameFunction(oldMap, oldOperands, map, operands)

\* C2: the pair returned by canonicalizeMapAndOperands evaluates, for every
\* assignment to the operand values, to the same result vector as the pair
\* it was called on.
C2_CanonicalizePreservesFunction ==
  (pc = "canonicalized" /\ InputOk) =>
    SameFunction(oldMap, oldOperands, map, operands)

\* A canonicalization that promoted a dim to a symbol, folded a constant
\* and left fewer operands than it was given.
C2_Witness ==
  /\ pc = "canonicalized"
  /\ InputOk
  /\ "c7" \in Seq2Set(oldOperands)
  /\ oldMap.numDims > map.numDims
  /\ map.numSymbols > oldMap.numSymbols
  /\ Len(operands) < Len(oldOperands)

\* C3: every pair returned by the Normalizer, canonicalizeMapAndOperands,
\* composeAffineMapAndOperands and fullyComposeAffineMapAndOperands (each of
\* its iterations included) has as many operands as its map has dims and
\* symbols, when the pair it was called on has.
C3_OperandCount ==
  (pc \in {"normalized", "canonicalized", "composed", "fully", "fullyDone"} /\ InputOk) =>
    Len(operands) = getNumInputs(map)

\* A composition that inlined a producer and returned more operands than it
\* was given.
C3_Witness ==
  /\ pc = "composed"
  /\ InputOk
  /\ anyAffineApply(oldOperands)
  /\ Len(operands) > Len(oldOperands)
  /\ map.numSymbols > oldMap.numSymbols

C5_DedupAtMostOnce ==
  (pc = "canonicalized" /\ InputOk) =>
    \A i, j \in 1..Len(oldOperands) :
      (i # j /\ oldOperands[i] = oldOperands[j]) => Count(operands, oldOperands[i]) <= 1

\* C6: every iteration of fullyComposeAffineMapAndOperands shortens the
\* longest producer chain ending in an operand, so the number of iterations
\* is bounded by the length of the chain it started with, and no operand is
\* an affine.apply result when it returns.
C6_FullyComposeTerminates ==
  /\ pc \in {"fully", "fullyDone"} =>
       iters + OperandDepth(operands) <= OperandDepth(oldOperands)
  /\ pc = "fullyDone" => ~anyAffineApply(operands)

\* fullyComposeAffineMapAndOperands returned after two iterations.
C6_Witness ==
  /\ pc = "fullyDone"
  /\ iters = Cardinality(ApplyValues)
  /\ OperandDepth(oldOperands) = Cardinality(ApplyValues)

\* C7: SimplifyAffineOp reports a match exactly when the composed and
\* canonicalized pair differs from the op's pair in its map or in its
\* operands; on a match the op carries the composed pair, else it keeps
\* the pair it had.
C7_MatchIffChanged ==
  pc = "rewritten" =>
    \A c \in {composeAffineMapAndOperands(oldMap, oldOperands)} :
      /\ matched <=> (c.map # oldMap \/ c.operands # oldOperands)
      /\ matched => (map = c.map /\ operands = c.operands)
      /\ ~matched => (map = oldMap /\ operands = oldOperands)

\* A match where the map stayed the same and only the operands changed.
C7_Witness ==
  /\ pc = "rewritten"
  /\ matched
  /\ map = oldMap
  /\ operands # oldOperands

\* Scenario E: the dim operand of the outer map is the result of
\* (d0)[s0] -> (d0 + s0), whose symbol operand is also the symbol operand
\* of the outer map.
ScenarioE ==
  /\ oldMap \in {MapDimPlusSym, MapDimPlusTwoSym}
  /\ Len(oldOperands) = 2
  /\ IsAffineApply(oldOperands[1])
  /\ ops[oldOperands[1]].map = MapDimPlusSym
  /\ ops[oldOperands[1]].operands[2] = oldOperands[2]

\* The position in the operand list of the symbol operand v.
SymPos(v) == CHOOSE i \in (map.numDims + 1)..Len(operands) : operands[i] = v

ScenarioA ==
  /\ oldMap = MapDimPlusSym
  /\ Len(oldOperands) = 2
  /\ IsAffineApply(oldOperands[1])
  /\ ops[oldOperands[1]].map = MapDimPlusOne

\* The map has one dim, one symbol and the single result d0 + s0 + 1, in
\* whatever order the terms are written.
IsDimPlusOnePlusSym(m) ==
  /\ m.numDims = 1
  /\ m.numSymbols = 1
  /\ Len(m.results) = 1
  /\ IsLinear(m.results[1])
  /\ ResultRow(m) = ResultRow(AffineMapGet(1, 1,
       <<Bin("add", Bin("add", Dim(0), Cst(1)), Sym(0))>>))

\* C9 as stated: in Scenario A composeAffineMapAndOperands returns
\* (d0)[s0] -> (d0 + 1 + s0) with the operands [the producer's dim operand,
\* the symbol operand].
C9_ScenarioAInlined ==
  (pc = "composed" /\ ScenarioA) =>
    /\ IsDimPlusOnePlusSym(map)
    /\ operands = <<ops[oldOperands[1]].operands[1], oldOperands[2]>>

\* The case of Scenario A in which nothing but the inlining happens: the
\* producer's dim operand is not a valid symbol, and the symbol operand is
\* neither a constant nor an affine.apply result.
ScenarioAPlain ==
  /\ ScenarioA
  /\ ~isValidSymbol(ops[oldOperands[1]].operands[1])
  /\ oldOperands[2] \notin ConstantValues
  /\ ~IsAffineApply(oldOperands[2])

\* C9, amended: in Scenario A, when the producer's dim operand is not a
\* valid symbol and the symbol operand is neither a constant nor an
\* affine.apply result, composeAffineMapAndOperands returns a map with one
\* dim, one symbol and the result d0 + s0 + 1, with the operands [the
\* producer's dim operand, the symbol operand].
C9_ScenarioAPlainInlined ==
  (pc = "composed" /\ ScenarioAPlain) =>
    /\ IsDimPlusOnePlusSym(map)
    /\ operands = <<ops[oldOperands[1]].operands[1], oldOperands[2]>>

\* Scenario A with a loop induction variable under the producer and a
\* top-level symbol.
C9_Witness ==
  /\ pc = "composed"
  /\ ScenarioAPlain
  /\ operands[1] \in InductionVars
  /\ operands[2] \in TopLevelValues
  /\ oldOperands[1] \notin Seq2Set(operands)

\* Scenario B: (d0, d1) -> (d0, d1) with one value at both positions.
ScenarioB ==
  /\ oldMap = MapIdentity2
  /\ Len(oldOperands) = 2
  /\ oldOperands[1] = oldOperands[2]

\* C10 as stated: in Scenario B canonicalizeMapAndOperands returns
\* (d0) -> (d0, d0) with a single operand.
C10_ScenarioBOneDim ==
  (pc = "canonicalized" /\ ScenarioB) =>
    /\ map = AffineMapGet(1, 0, <<Dim(0), Dim(0)>>)
    /\ Len(operands) = 1

\* C10, amended: in Scenario B canonicalizeMapAndOperands returns
\* (d0) -> (d0, d0) with the value as single operand when the value is not a
\* valid symbol, ()[s0] -> (s0, s0) with the value as single operand when it
\* is a valid symbol that is not a constant, and () -> (c, c) with no
\* operand when it is the constant c.
C10_ScenarioBByOperandKind ==
  (pc = "canonicalized" /\ ScenarioB) =>
    /\ ~isValidSymbol(oldOperands[1]) =>
         /\ map = AffineMapGet(1, 0, <<Dim(0), Dim(0)>>)
         /\ operands = <<oldOperands[1]>>
    /\ (isValidSymbol(oldOperands[1]) /\ oldOperands[1] \notin ConstantValues) =>
         /\ map = AffineMapGet(0, 1, <<Sym(0), Sym(0)>>)
         /\ operands = <<oldOperands[1]>>
    /\ oldOperands[1] \in ConstantValues =>
         /\ map = AffineMapGet(0, 0, <<Cst(ConstantOf(oldOperands[1])),
                                       Cst(ConstantOf(oldOperands[1]))>>)
         /\ operands = <<>>

\* Scenario B on a value that is not a valid symbol: the two dims became one.
C10_Witness ==
  /\ pc = "canonicalized"
  /\ ScenarioB
  /\ ~isValidSymbol(oldOperands[1])
  /\ map.numDims = 1
  /\ operands = <<oldOperands[1]>>

\* C11: no operand of the list canonicalizeMapAndOperands returns is a
\* compile-time constant; the constant is written into the map, so the
\* returned pair computes what the input computes, and (d0) -> (d0) on the
\* constant 7 becomes () -> (7) with no operand.
C11_NoConstantOperand ==
  (pc = "canonicalized" /\ InputOk) =>
    /\ \A i \in 1..Len(operands) : operands[i] \notin ConstantValues
    /\ (\E i \in 1..Len(oldOperands) : oldOperands[i] \in ConstantValues) =>
         SameFunction(oldMap, oldOperands, map, operands)
    /\ (oldMap = MapIdentity1 /\ oldOperands = <<"c7">>) =>
         (map = AffineMapGet(0, 0, <<Cst(7)>>) /\ operands = <<>>)

\* Scenario C: (d0) -> (d0) on the constant 7 was canonicalized.
C11_Witness ==
  /\ pc = "canonicalized"
  /\ oldMap = MapIdentity1
  /\ oldOperands = <<"c7">>
  /\ map = AffineMapGet(0, 0, <<Cst(7)>>)
  /\ operands = <<>>

\* Every dim and every symbol position of m is referenced by a result.
AllReferenced(m) ==
  /\ \A p \in 0..(m.numDims - 1) :
       \E i \in 1..Len(m.results) : p \in DimsOf(m.results[i])
  /\ \A p \in 0..(m.numSymbols - 1) :
       \E i \in 1..Len(m.results) : p \in SymsOf(m.results[i])

\* The number of positions of m that a result references.
ReferencedCount(m) ==
  Cardinality({p \in 0..(m.numDims - 1) :
                 \E i \in 1..Len(m.results) : p \in DimsOf(m.results[i])})
  + Cardinality({p \in 0..(m.numSymbols - 1) :
                 \E i \in 1..Len(m.results) : p \in SymsOf(m.results[i])})

----------------------------------------------------------------------------
(* Properties of the operand classifier.                                   *)

\* The four provenances of a valid dimension: defined at the top level, a
\* constant, an affine.apply whose operands are all valid dimensions, a
\* loop induction variable.
RECURSIVE ValidDimByProvenance(_)
ValidDimByProvenance(v) ==
  /\ v \notin NonIndexValues
  /\ \/ v \in TopLevelValues
     \/ v \in ConstantValues
     \/ /\ v \in ApplyValues
        /\ \A i \in 1..Len(ops[v].operands) : ValidDimByProvenance(ops[v].operands[i])
     \/ v \in InductionVars

\* The same with a fifth: a size query on a memref defined at the top level.
RECURSIVE ValidDimOrTopLevelSize(_)
ValidDimOrTopLevelSize(v) ==
  /\ v \notin NonIndexValues
  /\ \/ v \in TopLevelValues
     \/ v \in ConstantValues
     \/ /\ v \in ApplyValues
        /\ \A i \in 1..Len(ops[v].operands) : ValidDimOrTopLevelSize(ops[v].operands[i])
     \/ v \in InductionVars
     \/ v \in DimValues /\ dimOps[v].memref = "topLevel"

\* C13 as stated: isValidDim(v) holds exactly for the four provenances, and
\* is false for a size query nested in a loop.
C13_ValidDimFourProvenances ==
  pc = "isValidDim" => (result = "true" <=> ValidDimByProvenance(value))

\* C13: isValidDim(v) holds exactly when v has index type and is defined at
\* the top level, or is a constant, or is the result of an affine.apply whose
\* operands are all valid dimensions, or is the induction variable of an
\* affine.for, or is a size query, nested or not, on a memref defined at the
\* top level; it is false for every other value.
C13_ValidDimProvenances ==
  pc = "isValidDim" => (result = "true" <=> ValidDimOrTopLevelSize(value))

\* isValidDim accepted an affine.apply one of whose operands is a size
\* query nested in a loop.
C13_Witness ==
  /\ pc = "isValidDim"
  /\ result = "true"
  /\ value = "p1"
  /\ "d1" \in Seq2Set(ops["p1"].operands)

\* C14: isValidSymbol answers true on a size query whose queried dimension
\* is statically known, here on a memory object that is the block argument
\* of a nested region.
C14_StaticSizeQueryIsSymbol ==
  (/\ pc = "isValidSymbol"
   /\ value = "d1"
   /\ dimOps["d1"].static
   /\ dimOps["d1"].memref = "blockArg") => result = "true"

----------------------------------------------------------------------------
(* Properties of the verifiers and builders.                               *)

\* C15: an affine.apply whose operand count matches its map fails
\* verification when one of its dimension operands is not a valid dimension
\* or one of its symbol operands is not a valid symbol.
C15_ApplyVerifiesDimsAndSymbols ==
  (/\ pc = "verified"
   /\ op = "affine.apply"
   /\ Len(operands) = getNumInputs(map)
   /\ ~verifyDimAndSymbolIdentifiers(map, operands)) => result \in Diagnostics

\* C16: a pair whose operand count is not the number of inputs of its map,
\* handed to a verifier, a builder or a simplification entry point, never
\* ends in an abort or a crash.
C16_CountMismatchNeverAborts ==
  (/\ pc \in {"verified", "built", "simplified"}
   /\ Len(operands) # getNumInputs(map)) => result \notin {"abort", "undefined"}

----------------------------------------------------------------------------
(* Properties of the methods of AffineMap.                                 *)

\* The values dimensions and symbols are given.
Samples == (-MaxAbs)..MaxAbs

\* The result vector of m on dimension values dv and symbol values sv.
ApplyMap(m, dv, sv) == [r \in 1..Len(m.results) |-> EvalExpr(m.results[r], dv, sv)]

\* Coefficient rows of the results of m.
Rows(m) == [r \in 1..Len(m.results) |-> Flatten(m.results[r], m.numDims, m.numSymbols)]

\* C17: this.compose(producer) has the producer's number of dimensions and
\* this.numSymbols + producer.numSymbols symbols; the symbols of `this` keep
\* their positions and the producer's symbol j is symbol this.numSymbols + j,
\* so that the composed map on (dv, sa ++ sb) is `this` on the producer's
\* results on (dv, sb) and on sa; the two maps of the example compose to
\* (d0)[s0, s1, s2] -> (d0 + s1 + s2 + 1, d0 - s0 - s2 - 1).
C17_ComposeSymbolNumbering ==
  (pc = "mapsComposed") =>
    /\ ret.numDims = args.maps[2].numDims
    /\ ret.numSymbols = args.maps[1].numSymbols + args.maps[2].numSymbols
    /\ WellFormed(ret)
    /\ \A dv \in [1..args.maps[2].numDims -> Samples] :
       \A sa \in [1..args.maps[1].numSymbols -> Samples] :
       \A sb \in [1..args.maps[2].numSymbols -> Samples] :
         ApplyMap(ret, dv, sa \o sb)
           = ApplyMap(args.maps[1], ApplyMap(args.maps[2], dv, sb), sa)
    /\ (args.maps = <<MapDoc1, MapDoc2>>) =>
         Rows(ret) = << <<1, 0, 1, 1, 1>>, <<1, -1, 0, -1, -1>> >>

\* The two maps of the example have been composed.
C17_Witness ==
  /\ pc = "mapsComposed"
  /\ args.maps = <<MapDoc1, MapDoc2>>
  /\ ret.numDims = 1
  /\ ret.numSymbols = 3

\* q is the floor of a / b, for b > 0.
IsFloor(q, a, b) == b * q <= a /\ a < b * (q + 1)

\* q is the ceiling of a / b, for b > 0.
IsCeil(q, a, b) == b * (q - 1) < a /\ a <= b * q

\* C18: constantFold of d0 floordiv b, d0 ceildiv b and d0 mod b on the
\* constant a, b positive, yields the floor of a / b, the ceiling of a / b
\* and the remainder of the floor division, which lies in [0, b), whatever
\* the sign of a; d0 floordiv 4 on -1 yields -1.
C18_FoldFloorSemantics ==
  (pc = "folded" /\ args.maps[1] \in DivisionMaps) =>
    /\ ret.ok
    /\ Len(ret.results) = 1
    /\ \E e \in {args.maps[1].results[1]} :
       \E a \in {args.operandConstants[1].value} :
       \E q \in {ret.results[1]} :
         /\ e[1] = "floordiv" => IsFloor(q, a, e[3][2])
         /\ e[1] = "ceildiv" => IsCeil(q, a, e[3][2])
         /\ e[1] = "mod" =>
              /\ 0 <= q /\ q < e[3][2]
              /\ \E k \in (-MaxDividend - 1)..MaxDividend :
                   IsFloor(k, a, e[3][2]) /\ a = e[3][2] * k + q
         /\ (e[1] = "floordiv" /\ e[3][2] = 4 /\ a = -1) => q = -1

\* d0 floordiv 4 has been folded on -1.
C18_Witness ==
  /\ pc = "folded"
  /\ args.maps[1] = AffineMapGet(1, 0, <<Bin("floordiv", Dim(0), Cst(4))>>)
  /\ args.operandConstants = <<IntegerAttr(-1)>>
  /\ ret.results = <<-1>>

\* C19: a.compose(b).compose(c) and a.compose(b.compose(c)) have the same
\* number of dimensions and of symbols and the same result vector on every
\* assignment to their dimensions and symbols.
C19_ComposeAssociative ==
  (pc = "threeComposed") =>
    /\ ret[1].numDims = ret[2].numDims
    /\ ret[1].numSymbols = ret[2].numSymbols
    /\ Len(ret[1].results) = Len(ret[2].results)
    /\ WellFormed(ret[1]) /\ WellFormed(ret[2])
    /\ \A dv \in [1..ret[1].numDims -> Samples] :
       \A sv \in [1..ret[1].numSymbols -> Samples] :
         ApplyMap(ret[1], dv, sv) = ApplyMap(ret[2], dv, sv)

\* Three maps that each have symbols have been composed both ways.
C19_Witness ==
  /\ pc = "threeComposed"
  /\ args.maps[1].numSymbols = 2
  /\ args.maps[2].numSymbols > 0
  /\ args.maps[3].numSymbols > 0
  /\ ret[1].numSymbols = ret[2].numSymbols
  /\ ret[1].numSymbols >= 4

----------------------------------------------------------------------------
(* Properties of the Normalizer's symbol order.                            *)

\* C20: when the consumer map has its own non-producer symbol operand and
\* its dim operand is a producer whose map has a symbol operand, the
\* Normalizer's output binds symbol position j of its map to the operand at
\* index numDims + j in such a way that the consumer's symbol is paired with
\* the consumer's symbol operand and the producer's symbol with the
\* producer's: the output pair has one operand per position and computes
\* what the input pair computes.
C20_SymbolsPairedWithOperands ==
  (/\ pc = "normalized"
   /\ InputOk
   /\ InputValid
   /\ OperandDepth(oldOperands) <= 1
   /\ oldMap.numDims = 1
   /\ oldMap.numSymbols = 1
   /\ IsAffineApply(oldOperands[1])
   /\ ops[oldOperands[1]].map.numSymbols > 0
   /\ oldOperands[2] \in TopLevelValues) =>
     /\ Len(operands) = getNumInputs(map)
     /\ SameFunction(oldMap, oldOperands, map, operands)

----------------------------------------------------------------------------
(* Further properties of the operand classifier.                           *)

\* C23: every value isValidSymbol accepts is a valid dimension too (stated
\* for the values on which isValidSymbol has a defined answer, the size
\* queries among them being on a static dimension).
C23_ValidSymbolIsValidDim ==
  (/\ pc = "isValidSymbol"
   /\ ~symbolQueryCastsNull(value)
   /\ dimOps["d1"].static
   /\ result = "true") => isValidDim(value)

----------------------------------------------------------------------------
(* Properties of the Normalizer past the depth bound.                      *)

\* The Normalizer constructed for the producer v while the construction of
\* the outermost one is under way: the depth bound is exceeded.
NestedNormalizer(v) ==
  AffineApplyNormalizer(ops[v].map, ops[v].operands, kMaxAffineApplyDepth + 1)

\* The producers for which the outermost Normalizer constructed a nested
\* one.
NestedProducers == {v \in ApplyValues : v \in Seq2Set(oldOperands)}

\* C21: a Normalizer constructed past the depth bound keeps every formal
\* parameter of the rewritten map bound to the operand it was bound to in
\* its input map, wherever the producer-result symbol sits among the symbol
\* operands: its map on reorderedDims ++ concatenatedSymbols computes what
\* the producer's map computes on the producer's operands.
C21_DepthExceededKeepsBindings ==
  (pc = "normalized" /\ InputOk /\ InputValid) =>
    \A v \in NestedProducers :
      (\E i \in 1..Len(ops[v].operands) :
         i > ops[v].map.numDims /\ IsAffineApply(ops[v].operands[i])) =>
        SameFunction(ops[v].map, ops[v].operands,
                     NestedNormalizer(v).affineMap, getOperands(NestedNormalizer(v)))

RewrittenMap ==
  promoteComposedSymbolsAsDims(oldMap, takeBack(oldOperands, oldMap.numSymbols))
OperandsDispatched ==
  composeOperands(oldMap.numDims, oldOperands, 1,
                  normalizerInit(RewrittenMap, TRUE, kMaxAffineApplyDepth),
                  kMaxAffineApplyDepth)

\* C22: the auxiliary map the Normalizer passes to compose is well formed
\* (each DimRef position is below its dimCount, each SymbolRef position
\* below its symbolCount), whatever the order of plain symbol operands and
\* producer operands with symbols.
C22_AuxiliaryMapWellFormed ==
  (pc = "normalized" /\ InputOk /\ InputValid /\ OperandsDispatched.auxiliaryExprs # <<>>) =>
    WellFormed(auxiliaryMap(RewrittenMap, OperandsDispatched))


PromotedAt(i) == i <= oldMap.numDims /\ isValidSymbol(oldOperands[i])
KeptAt(i) == ~PromotedAt(i)
Positions(os) == [i \in 1..Len(os) |-> i]
OperandsAt(ps) == [k \in 1..Len(ps) |-> oldOperands[ps[k]]]
PromotedBefore(i) == Cardinality({k \in 1..(i - 1) : PromotedAt(k)})

\* The substitution C24 describes: a promoted dim becomes the symbol after
\* the existing symbols and the promoted dims before it, a kept dim keeps
\* its rank among the kept dims.
ExpectedDimRemapping ==
  [i \in 1..oldMap.numDims |->
     IF PromotedAt(i) THEN Sym(oldMap.numSymbols + PromotedBefore(i))
     ELSE Dim(i - 1 - PromotedBefore(i))]
SymbolsInPlace == [j \in 1..oldMap.numSymbols |-> Sym(j - 1)]
PromotedPair == canonicalizePromotedSymbols(oldMap, oldOperands)

\* C24: the symbol promotion pass appends every dim operand that is a valid
\* symbol after all the operands it keeps (promoted operands in their
\* relative order, existing symbol operands in place), replaces its DimRef
\* by the SymbolRef at the new position and renumbers the remaining dims
\* from 0 in their relative order.
C24_PromotionMovesValidSymbols ==
  (pc = "canonicalized" /\ InputOk) =>
    /\ PromotedPair.operands =
         OperandsAt(SelectSeq(Positions(oldOperands), KeptAt)) \o
         OperandsAt(SelectSeq(Positions(oldOperands), PromotedAt))
    /\ PromotedPair.map.numDims = oldMap.numDims - PromotedBefore(oldMap.numDims + 1)
    /\ PromotedPair.map.numSymbols = oldMap.numSymbols + PromotedBefore(oldMap.numDims + 1)
    /\ PromotedPair.map.results =
         [r \in 1..Len(oldMap.results) |->
            replaceExpr(oldMap.results[r], ExpectedDimRemapping, SymbolsInPlace)]

\* A promotion that moved a dim operand past a kept dim and an existing
\* symbol operand.
C24_Witness ==
  /\ pc = "canonicalized"
  /\ InputOk
  /\ oldMap.numSymbols > 0
  /\ \E i \in 1..oldMap.numDims : \E k \in 1..oldMap.numDims :
        i < k /\ PromotedAt(i) /\ KeptAt(k)

\* C26: whenever canonicalizeMapAndOperands returns the map it was given, it
\* returns the operand list it was given, so a caller comparing only the
\* maps misses no operand change.
C26_SameMapSameOperands ==
  (pc = "canonicalized" /\ InputOk /\ map = oldMap) => operands = oldOperands

\* A canonicalization of a pair with a dim and a symbol operand that found
\* nothing to change.
C26_Witness ==
  /\ pc = "canonicalized"
  /\ InputOk
  /\ map = oldMap
  /\ oldMap.numDims > 0
  /\ oldMap.numSymbols > 0
  /\ operands = oldOperands

\* A canonicalization that changed the operand list, and the map with it.
C26_ChangeWitness ==
  /\ pc = "canonicalized"
  /\ InputOk
  /\ operands # oldOperands
  /\ Len(operands) = Len(oldOperands)
  /\ map # oldMap

\* The least element of a non-empty sequence of integers.
MinOf(xs) == CHOOSE x \in Seq2Set(xs) : \A y \in Seq2Set(xs) : x <= y

\* C27: when constant folding of the map succeeds on a map with at least
\* one result, AffineMinOp::fold returns the minimum of the folded results,
\* whatever signed values they are, the largest representable one included.
C27_MinFoldReturnsMinimum ==
  (/\ pc = "minFolded"
   /\ constantFold(args.maps[1], args.operandConstants).ok
   /\ Len(args.maps[1].results) >= 1) =>
    /\ ret.kind = "attr"
    /\ ret.attr = MinOf(constantFold(args.maps[1], args.operandConstants).results)

\* C28: AffineApplyOp::fold returns operand i for the bare DimRef i,
\* operand dimCount + j for the bare SymbolRef j, else the constant
\* constantFold computes or no result when it fails; what it returns is
\* the value the apply computes.
C28_ApplyFoldIsTheValue ==
  (pc = "applyFolded") =>
    \E m \in {args.maps[1]} : \E e \in {args.maps[1].results[1]} :
      /\ e[1] = "dim" => ret.kind = "value" /\ ret.operand = operands[e[2] + 1]
      /\ e[1] = "sym" =>
           ret.kind = "value" /\ ret.operand = operands[m.numDims + e[2] + 1]
      /\ e[1] \notin {"dim", "sym"} =>
           IF constantFold(m, args.operandConstants).ok
           THEN ret.kind = "attr"
                /\ ret.attr = constantFold(m, args.operandConstants).results[1]
           ELSE ret.kind = "none"
      /\ ret.kind = "value" =>
           \A env \in Envs : ValueOf(ret.operand, env) = EvalMap(m, operands, env)[1]
      /\ ret.kind = "attr" =>
           \A env \in Envs : ret.attr = EvalMap(m, operands, env)[1]

\* The fold of (d0)[s0] -> (s0) returned its second operand, and a fold
\* of a compound expression on constants returned a constant.
C28_Witness ==
  /\ pc = "applyFolded"
  /\ \/ /\ args.maps[1] = MapSymOnly
        /\ operands[1] # operands[2]
        /\ ret.kind = "value"
        /\ ret.operand = operands[2]
     \/ /\ args.maps[1] = MapDimPlusTwoSym
        /\ ret.kind = "attr"
        /\ ret.attr = 21

ProducerOperands(v) ==
  {ops[v].operands[i] : i \in {k \in 1..Len(ops[v].operands) : IsAffineApply(ops[v].operands[k])}}

\* C25: a Normalizer constructed past the depth bound constructs no nested
\* Normalizer and keeps the producer results among its operands, and the
\* nesting of Normalizer constructions never exceeds the maximum depth plus
\* one, whatever the length of the producer chain.
C25_NestingBounded ==
  (pc = "normalized" /\ InputOk) =>
    /\ AffineApplyNormalizer(oldMap, oldOperands, 1).nesting <= kMaxAffineApplyDepth + 1
    /\ \A v \in NestedProducers :
         /\ NestedNormalizer(v).nesting = kMaxAffineApplyDepth + 1
         /\ ProducerOperands(v) \subseteq Seq2Set(getOperands(NestedNormalizer(v)))

\* A Normalizer ran on a producer chain of length two: the nested one met
\* a producer result and kept it as an operand.
C25_Witness ==
  /\ pc = "normalized"
  /\ InputOk
  /\ OperandDepth(oldOperands) = 2
  /\ \E v \in NestedProducers : ProducerOperands(v) # {}
  /\ anyAffineApply(operands)

\* C29: on a pair taken from an affine.apply that passes verification,
\* whose affine.apply producers pass verification too, the Normalizer's
\* check that every symbol operand is a valid symbol holds.
C29_SymbolAssertHolds ==
  (/\ verify("affine.apply", oldMap, oldOperands) = "success"
   /\ \A v \in ApplyValues :
        verify("affine.apply", ops[v].map, ops[v].operands) = "success") =>
    pc # "aborted"

\* C30, second part: once no operand of the composed and canonicalized pair
\* is a producer result, a second application of compose-and-canonicalize
\* returns the identical map and operand list.
C30_SecondComposeIdentical ==
  (pc = "composed" /\ InputOk /\ InputValid /\ ~anyAffineApply(operands)) =>
    \A c \in {composeAffineMapAndOperands(map, operands)} :
      c.map = map /\ c.operands = operands

====
